---- MODULE Spec2Model ----
(***************************************************************************)
(* Model of the SSR-site build runner (buildApp), the build-command        *)
(* resolver, the build environment layering, the open-next output loader   *)
(* and the content-type resolver of platform/src/components/base.          *)
(***************************************************************************)
EXTENDS Integers, Sequences, FiniteSets, TLC

(* ------------------------------------------------------------------ *)
(* Bounds of the model                                                  *)
(* ------------------------------------------------------------------ *)

\* number of concurrent buildApp invocations (N)
NumBuilds == 3

\* capacity of the global limiter (C)
Capacity == 2

\* longest list of link data handed to runBuild
MaxLinks == 2

\* longest filename, in path tokens, handed to getContentType
MaxNameLen == 4

\* longest behaviors list of a deployment descriptor
MaxBehaviors == 2

Builds == 1..NumBuilds

(* ------------------------------------------------------------------ *)
(* JavaScript values                                                    *)
(* ------------------------------------------------------------------ *)

\* an optional value is a sequence of length 0 (undefined) or 1
Undefined == <<>>

Some(v) == <<v>>

IsDefined(o) == o # <<>>

\* JavaScript truthiness of an optional string
Truthy(o) == o # <<>> /\ o[1] # ""

\* completion records of a call: a returned value or a thrown error
Return(v) == [kind |-> "return", type |-> "", value |-> v]

Throw(t, m) == [kind |-> "throw", type |-> t, value |-> m]

(* ------------------------------------------------------------------ *)
(* Filesystem                                                           *)
(* ------------------------------------------------------------------ *)

\* $cli.paths.root
Root == "/repo"

\* site paths handed to buildApp
Sites == {"/repo/web", "/repo/docs"}

Dirs == Sites \cup {Root}

LockNames == {"yarn.lock", "pnpm-lock.yaml", "bun.lockb"}

\* path.join of a directory and a file name
join(dir, file) == dir \o "/" \o file

LockPaths == {join(d, l) : d \in Dirs, l \in LockNames}

\* what package.json of a site holds: no file, unparseable text, no
\* "scripts", "scripts" without "build", an empty "build", a build script
PkgStates == {"missing", "malformed", "noScripts", "noBuild", "emptyBuild", "hasBuild"}

\* a filesystem: the state of each site's package.json and the lockfiles present
FileSystems == [pkg : [Sites -> PkgStates], locks : SUBSET LockPaths]

existsSync(f, p) ==
    \/ p \in f.locks
    \/ \E s \in Sites : p = join(s, "package.json") /\ f.pkg[s] # "missing"

(* ------------------------------------------------------------------ *)
(* resolveBuildCommand                                                  *)
(* ------------------------------------------------------------------ *)

\* the result of resolveBuildCommand: its completion and the paths it probed
Resolved(r, reads) == [ret |-> r, reads |-> reads]

\* a resolver that asks for pnpm before yarn
detectLockfilePnpmFirst(sitePath, f, reads) ==
    LET y1 == join(sitePath, "yarn.lock")
        y2 == join(Root, "yarn.lock")
        p1 == join(sitePath, "pnpm-lock.yaml")
        p2 == join(Root, "pnpm-lock.yaml")
    IN  IF existsSync(f, p1) \/ existsSync(f, p2)
        THEN Resolved(Return("pnpm run build"), reads \o <<p1, p2>>)
        ELSE IF existsSync(f, y1) \/ existsSync(f, y2)
        THEN Resolved(Return("yarn run build"), reads \o <<p1, p2, y1, y2>>)
        ELSE IF existsSync(f, join(sitePath, "bun.lockb")) \/ existsSync(f, join(Root, "bun.lockb"))
        THEN Resolved(Return("bun run build"), reads \o <<p1, p2, y1, y2>>)
        ELSE Resolved(Return("npm run build"), reads \o <<p1, p2, y1, y2>>)

\* the lockfile detection of resolveBuildCommand, after the package.json checks;
\* reads is the list of paths probed so far, || stops at the first hit
detectLockfile(sitePath, f, reads) ==
    LET y1 == join(sitePath, "yarn.lock")
        y2 == join(Root, "yarn.lock")
        p1 == join(sitePath, "pnpm-lock.yaml")
        p2 == join(Root, "pnpm-lock.yaml")
        b1 == join(sitePath, "bun.lockb")
        b2 == join(Root, "bun.lockb")
    IN  IF existsSync(f, y1) THEN Resolved(Return("yarn run build"), reads \o <<y1>>)
        ELSE IF existsSync(f, y2) THEN Resolved(Return("yarn run build"), reads \o <<y1, y2>>)
        ELSE IF existsSync(f, p1)
             THEN Resolved(Return("pnpm run build"), reads \o <<y1, y2, p1>>)
        ELSE IF existsSync(f, p2)
             THEN Resolved(Return("pnpm run build"), reads \o <<y1, y2, p1, p2>>)
        ELSE IF existsSync(f, b1)
             THEN Resolved(Return("bun run build"), reads \o <<y1, y2, p1, p2, b1>>)
        ELSE IF existsSync(f, b2)
             THEN Resolved(Return("bun run build"), reads \o <<y1, y2, p1, p2, b1, b2>>)
        ELSE Resolved(Return("npm run build"), reads \o <<y1, y2, p1, p2, b1, b2>>)

\* a resolver that falls back to the default command when package.json is missing
resolveBuildCommandSilentDefault(userCommand, sitePath, f) ==
    IF Truthy(userCommand) THEN Resolved(Return(userCommand[1]), <<>>)
    ELSE IF f.pkg[sitePath] \notin {"hasBuild"}
    THEN Resolved(Return("npm run build"), <<join(sitePath, "package.json")>>)
    ELSE detectLockfile(sitePath, f, <<join(sitePath, "package.json"),
                                       join(sitePath, "package.json")>>)

resolveBuildCommand(userCommand, sitePath, f) ==
    LET pkgPath == join(sitePath, "package.json")
    IN  IF Truthy(userCommand) THEN Resolved(Return(userCommand[1]), <<>>)
        ELSE IF ~existsSync(f, pkgPath)
        THEN Resolved(Throw("VisibleError",
                            "No package.json found at \"" \o sitePath \o "\"."),
                      <<pkgPath>>)
        ELSE IF f.pkg[sitePath] = "malformed"
        THEN Resolved(Throw("SyntaxError", "Unexpected token in JSON"),
                      <<pkgPath, pkgPath>>)
        ELSE IF f.pkg[sitePath] \in {"noScripts", "noBuild", "emptyBuild"}
        THEN Resolved(Throw("VisibleError",
                            "No \"build\" script found within package.json in \""
                                \o sitePath \o "\"."),
                      <<pkgPath, pkgPath>>)
        ELSE detectLockfile(sitePath, f, <<pkgPath, pkgPath>>)

(* ------------------------------------------------------------------ *)
(* The environment of the spawned build                                 *)
(* ------------------------------------------------------------------ *)

\* an object literal's spread: the keys of src are written over obj
Spread(obj, src) ==
    [k \in DOMAIN obj \cup DOMAIN src |-> IF k \in DOMAIN src THEN src[k] ELSE obj[k]]

\* the empty object
EmptyObject == [k \in {} |-> Undefined]

\* process.env.KEY: the value, or undefined
GetEnv(penv, k) == IF k \in DOMAIN penv THEN Some(penv[k]) ELSE Undefined

\* an object of strings seen as an object of optional values
Lift(o) == [k \in DOMAIN o |-> Some(o[k])]

\* JSON.stringify of a list of <<key, value>> string properties
RECURSIVE stringifyMembers(_)
stringifyMembers(props) ==
    IF props = <<>> THEN ""
    ELSE "\"" \o props[1][1] \o "\":\"" \o props[1][2] \o "\""
         \o (IF Len(props) > 1 THEN "," ELSE "") \o stringifyMembers(Tail(props))

stringify(props) == "{" \o stringifyMembers(props) \o "}"

\* $app.name and $app.stage
App == <<<<"name", "my-app">>, <<"stage", "dev">>>>

\* the loop of linkEnvs over linkData, from the object built so far
RECURSIVE linkLoop(_, _)
linkLoop(envs, linkData) ==
    IF linkData = <<>> THEN envs
    ELSE linkLoop(Spread(envs, [k \in {"SST_RESOURCE_" \o linkData[1].name} |->
                                    Some(stringify(linkData[1].properties))]),
                  Tail(linkData))

linkEnvs(linkData) ==
    linkLoop([k \in {"SST_RESOURCE_App"} |-> Some(stringify(App))], linkData)

\* an environment whose link entries are written before the caller's overrides
buildEnvLinksFirst(penv, environment, linkData) ==
    LET e1 == Spread(EmptyObject, Lift(penv))
        e2 == Spread(e1, [k \in {"SST"} |-> Some("1")])
        e3 == Spread(e2, [k \in {"AWS_ACCESS_KEY_ID"} |-> GetEnv(penv, "SST_AWS_ACCESS_KEY_ID")])
        e4 == Spread(e3, [k \in {"AWS_SESSION_TOKEN"} |-> GetEnv(penv, "SST_AWS_SESSION_TOKEN")])
        e5 == Spread(e4, [k \in {"AWS_SECRET_ACCESS_KEY"} |->
                              GetEnv(penv, "SST_AWS_SECRET_ACCESS_KEY")])
        e6 == Spread(e5, [k \in {"AWS_REGION"} |-> GetEnv(penv, "SST_AWS_REGION")])
        e7 == Spread(e6, linkEnvs(linkData))
    IN  Spread(e7, IF IsDefined(environment) THEN Lift(environment[1]) ELSE EmptyObject)

\* the env option of execSync: the object literal, written key by key
buildEnv(penv, environment, linkData) ==
    LET e1 == Spread(EmptyObject, Lift(penv))
        e2 == Spread(e1, [k \in {"SST"} |-> Some("1")])
        e3 == Spread(e2, [k \in {"AWS_ACCESS_KEY_ID"} |-> GetEnv(penv, "SST_AWS_ACCESS_KEY_ID")])
        e4 == Spread(e3, [k \in {"AWS_SESSION_TOKEN"} |-> GetEnv(penv, "SST_AWS_SESSION_TOKEN")])
        e5 == Spread(e4, [k \in {"AWS_SECRET_ACCESS_KEY"} |->
                              GetEnv(penv, "SST_AWS_SECRET_ACCESS_KEY")])
        e6 == Spread(e5, [k \in {"AWS_REGION"} |-> GetEnv(penv, "SST_AWS_REGION")])
        e7 == Spread(e6, IF IsDefined(environment) THEN Lift(environment[1]) ELSE EmptyObject)
    IN  Spread(e7, linkEnvs(linkData))

(* ------------------------------------------------------------------ *)
(* loadOpenNextOutput                                                   *)
(* ------------------------------------------------------------------ *)

\* the value written over a declared initializationFunction
FixedInitializationFunction ==
    [handler |-> "index.handler", bundle |-> ".open-next/dynamodb-provider"]

\* JSON.parse of the text of a file: the document it holds, or a SyntaxError
JSONparse(content) ==
    IF content.parses THEN Return(content.json)
    ELSE [kind |-> "throw", type |-> "SyntaxError", value |-> "Unexpected token in JSON"]

\* a loader that corrects the entry only when it holds the known wrong bundle
loadOpenNextOutputKnownWrongOnly(outputPath, disk) ==
    LET openNextOutputPath == outputPath \o "/.open-next/open-next.output.json"
        parsed == JSONparse(disk.content)
        json == parsed.value
    IN  IF ~disk.exists
        THEN Throw("VisibleError", "Failed to load open-next.output.json from \""
                                       \o openNextOutputPath \o "\".")
        ELSE IF parsed.kind = "throw" THEN parsed
        ELSE IF /\ IsDefined(json.additionalProps)
                /\ IsDefined(json.additionalProps[1].initializationFunction)
                /\ json.additionalProps[1].initializationFunction[1].bundle
                       = ".open-next/initialization-function"
        THEN Return([json EXCEPT !.additionalProps =
                        Some([@[1] EXCEPT !.initializationFunction =
                                  Some(FixedInitializationFunction)])])
        ELSE Return(json)

loadOpenNextOutput(outputPath, disk) ==
    LET openNextOutputPath == outputPath \o "/.open-next/open-next.output.json"
        parsed == JSONparse(disk.content)
        json == parsed.value
    IN  IF ~disk.exists
        THEN Throw("VisibleError", "Failed to load open-next.output.json from \""
                                       \o openNextOutputPath \o "\".")
        ELSE IF parsed.kind = "throw" THEN parsed
        ELSE IF /\ IsDefined(json.additionalProps)
                /\ IsDefined(json.additionalProps[1].initializationFunction)
        THEN Return([json EXCEPT !.additionalProps =
                        Some([@[1] EXCEPT !.initializationFunction =
                                  Some(FixedInitializationFunction)])])
        ELSE Return(json)

(* ------------------------------------------------------------------ *)
(* getContentType                                                       *)
(* ------------------------------------------------------------------ *)

\* a filename is a list of tokens: "." and "/" stand alone, every other token
\* is a run of characters holding neither
RECURSIVE Concat(_)
Concat(tokens) == IF tokens = <<>> THEN "" ELSE Head(tokens) \o Concat(Tail(tokens))

Max(S) == CHOOSE x \in S : \A y \in S : y <= x

\* filename.endsWith(suffix)
endsWith(name, suffix) ==
    /\ Len(name) >= Len(suffix)
    /\ SubSeq(name, Len(name) - Len(suffix) + 1, Len(name)) = suffix

\* path.extname: from the last "." of the last path component to its end;
\* empty without a ".", when the "." starts the component, and for ".."
extname(name) ==
    LET nonSlash == {i \in DOMAIN name : name[i] # "/"}
    IN  IF nonSlash = {} THEN ""
        ELSE LET end == Max(nonSlash)
                 slashes == {j \in 1..end : name[j] = "/"}
                 startPart == IF slashes = {} THEN 1 ELSE Max(slashes) + 1
                 dots == {i \in startPart..end : name[i] = "."}
             IN  IF dots = {} THEN ""
                 ELSE LET startDot == Max(dots)
                      IN  IF startDot = startPart THEN ""
                          ELSE IF /\ name[startPart] = "."
                                  /\ startDot = end
                                  /\ startDot = startPart + 1
                               THEN ""
                          ELSE Concat(SubSeq(name, startDot, end))

WellKnownSuffix == <<".", "well-known", "/", "site-association-json">>

\* const extensions
extensions ==
    [e \in {".txt", ".htm", ".html", ".xhtml", ".css", ".js", ".mjs", ".apng", ".avif",
             ".gif", ".jpeg", ".jpg", ".png", ".svg", ".bmp", ".tiff", ".webp", ".ico",
             ".eot", ".ttf", ".otf", ".woff", ".woff2", ".json", ".jsonld", ".xml",
             ".pdf", ".zip", ".wasm", ".webmanifest"} |->
        CASE e = ".txt" -> [mime |-> "text/plain", isText |-> TRUE]
          [] e = ".htm" -> [mime |-> "text/html", isText |-> TRUE]
          [] e = ".html" -> [mime |-> "text/html", isText |-> TRUE]
          [] e = ".xhtml" -> [mime |-> "application/xhtml+xml", isText |-> TRUE]
          [] e = ".css" -> [mime |-> "text/css", isText |-> TRUE]
          [] e = ".js" -> [mime |-> "text/javascript", isText |-> TRUE]
          [] e = ".mjs" -> [mime |-> "text/javascript", isText |-> TRUE]
          [] e = ".apng" -> [mime |-> "image/apng", isText |-> FALSE]
          [] e = ".avif" -> [mime |-> "image/avif", isText |-> FALSE]
          [] e = ".gif" -> [mime |-> "image/gif", isText |-> FALSE]
          [] e = ".jpeg" -> [mime |-> "image/jpeg", isText |-> FALSE]
          [] e = ".jpg" -> [mime |-> "image/jpeg", isText |-> FALSE]
          [] e = ".png" -> [mime |-> "image/png", isText |-> FALSE]
          [] e = ".svg" -> [mime |-> "image/svg+xml", isText |-> TRUE]
          [] e = ".bmp" -> [mime |-> "image/bmp", isText |-> FALSE]
          [] e = ".tiff" -> [mime |-> "image/tiff", isText |-> FALSE]
          [] e = ".webp" -> [mime |-> "image/webp", isText |-> FALSE]
          [] e = ".ico" -> [mime |-> "image/vnd.microsoft.icon", isText |-> FALSE]
          [] e = ".eot" -> [mime |-> "application/vnd.ms-fontobject", isText |-> FALSE]
          [] e = ".ttf" -> [mime |-> "font/ttf", isText |-> FALSE]
          [] e = ".otf" -> [mime |-> "font/otf", isText |-> FALSE]
          [] e = ".woff" -> [mime |-> "font/woff", isText |-> FALSE]
          [] e = ".woff2" -> [mime |-> "font/woff2", isText |-> FALSE]
          [] e = ".json" -> [mime |-> "application/json", isText |-> TRUE]
          [] e = ".jsonld" -> [mime |-> "application/ld+json", isText |-> TRUE]
          [] e = ".xml" -> [mime |-> "application/xml", isText |-> TRUE]
          [] e = ".pdf" -> [mime |-> "application/pdf", isText |-> FALSE]
          [] e = ".zip" -> [mime |-> "application/zip", isText |-> FALSE]
          [] e = ".wasm" -> [mime |-> "application/wasm", isText |-> FALSE]
          [] e = ".webmanifest" -> [mime |-> "application/manifest+json", isText |-> TRUE]]

\* a resolver that adds the charset to every type
getContentTypeCharsetAlways(filename, textEncoding) ==
    LET ext == IF endsWith(filename, WellKnownSuffix) THEN ".json" ELSE extname(filename)
        mime == IF ext \in DOMAIN extensions THEN extensions[ext].mime
                ELSE "application/octet-stream"
        charset == IF textEncoding # "none" THEN ";charset=" \o textEncoding ELSE ""
    IN  mime \o charset

getContentType(filename, textEncoding) ==
    LET ext == IF endsWith(filename, WellKnownSuffix) THEN ".json" ELSE extname(filename)
        known == ext \in DOMAIN extensions
        mime == IF known THEN extensions[ext].mime ELSE "application/octet-stream"
        charset == IF known /\ extensions[ext].isText /\ textEncoding # "none"
                   THEN ";charset=" \o textEncoding
                   ELSE ""
    IN  mime \o charset

(* ------------------------------------------------------------------ *)
(* State                                                                *)
(* ------------------------------------------------------------------ *)

VARIABLES
    skip,          \* process.env.SKIP: undefined, or a string
    dev,           \* $dev
    fs,            \* the files on disk
    penv,          \* process.env
    pc,            \* where each buildApp invocation stands
    req,           \* the arguments of each invocation
    cmd,           \* const cmd of each invocation
    result,        \* how each invocation ended: a returned path or a thrown error
    reads,         \* the paths each invocation probed on disk
    spawns,        \* the execSync calls of each invocation
    limiter,       \* the global limiter: slots in use and the waiting acquires
    acquireCalls,  \* limiter.acquire calls of each invocation
    acquired,      \* limiter.acquire calls of each invocation that resolved
    released,      \* limiter.release calls of each invocation
    call,          \* the arguments of a call of a pure function
    ret            \* what that call returned

buildVars == <<skip, dev, fs, penv, pc, req, cmd, result, reads, spawns, limiter,
               acquireCalls, acquired, released>>

vars == <<skip, dev, fs, penv, pc, req, cmd, result, reads, spawns, limiter,
          acquireCalls, acquired, released, call, ret>>

(* ------------------------------------------------------------------ *)
(* The limiter: a counting semaphore with a FIFO queue of waiters       *)
(* ------------------------------------------------------------------ *)

\* limiter.acquire: take a free slot, or join the queue
acquire(lim, b) ==
    IF lim.current < Capacity
    THEN [lim |-> [lim EXCEPT !.current = @ + 1], granted |-> TRUE]
    ELSE [lim |-> [lim EXCEPT !.queue = Append(@, b)], granted |-> FALSE]

\* limiter.release: hand the slot to the first waiter, or free it
release(lim) ==
    IF lim.queue # <<>>
    THEN [lim |-> [lim EXCEPT !.queue = Tail(@)], woken |-> <<Head(lim.queue)>>]
    ELSE [lim |-> [lim EXCEPT !.current = @ - 1], woken |-> <<>>]

(* ------------------------------------------------------------------ *)
(* buildApp                                                             *)
(* ------------------------------------------------------------------ *)

\* the site name of an invocation
Name(b) == "site" \o ToString(b)

\* the requests of the concurrent builds
BuildRequests ==
    [sitePath : Sites,
     userCommand : {Undefined, Some("make build")},
     environment : {Some([k \in {"NODE_ENV"} |-> "production"])},
     links : {<<[name |-> "db", properties |-> <<<<"host", "db.local">>>>]>>}]

NoRequest == [sitePath |-> "", userCommand |-> Undefined, environment |-> Undefined,
              links |-> <<>>]

\* the filesystems of the concurrent builds
BuildFileSystems ==
    {f \in [pkg : [Sites -> PkgStates],
            locks : {{}, {join("/repo/web", "yarn.lock"), join(Root, "pnpm-lock.yaml")}}] :
        f.pkg["/repo/docs"] \in {"missing", "hasBuild"}}

BuildProcessEnv ==
    [k \in {"PATH", "SST_AWS_REGION"} |-> "env:" \o k]

\* execSync blocks the thread: nothing else runs while a build command does
Blocked == \E x \in Builds : pc[x] = "executing"

\* the short-circuit that only looks at $dev
ShortCircuitDevOnly(s, d) == d

\* the two early returns of buildApp
ShortCircuit(s, d) == Truthy(s) \/ d

\* a runner that calls limiter.acquire and goes on without awaiting the slot
CallAcquireNoAwait(b) ==
    LET a == acquire(limiter, b)
    IN  /\ limiter' = a.lim
        /\ acquireCalls' = [acquireCalls EXCEPT ![b] = @ + 1]
        /\ acquired' = [acquired EXCEPT ![b] = @ + 1]
        /\ pc' = [pc EXCEPT ![b] = "granted"]

\* the call of limiter.acquire by invocation b: its promise resolves at once
\* or when a release hands b the slot
CallAcquire(b) ==
    LET a == acquire(limiter, b)
    IN  /\ limiter' = a.lim
        /\ acquireCalls' = [acquireCalls EXCEPT ![b] = @ + 1]
        /\ acquired' = [acquired EXCEPT ![b] = IF a.granted THEN @ + 1 ELSE @]
        /\ pc' = [pc EXCEPT ![b] = IF a.granted THEN "granted" ELSE "waiting"]

\* buildApp(name, args, sitePath, buildCommand) up to the await of limiter.acquire
BuildApp(b) ==
    /\ pc[b] = "idle"
    /\ ~Blocked
    /\ \E r \in BuildRequests :
         /\ req' = [req EXCEPT ![b] = r]
         /\ IF ShortCircuit(skip, dev)
            THEN /\ pc' = [pc EXCEPT ![b] = "returned"]
                 /\ result' = [result EXCEPT ![b] = Some(Return(r.sitePath))]
                 /\ UNCHANGED <<cmd, reads, limiter, acquireCalls, acquired>>
            ELSE LET res == resolveBuildCommand(r.userCommand, r.sitePath, fs)
                 IN  /\ reads' = [reads EXCEPT ![b] = res.reads]
                     /\ IF res.ret.kind = "throw"
                        THEN /\ pc' = [pc EXCEPT ![b] = "failed"]
                             /\ result' = [result EXCEPT ![b] = Some(res.ret)]
                             /\ UNCHANGED <<cmd, limiter, acquireCalls, acquired>>
                        ELSE /\ cmd' = [cmd EXCEPT ![b] = Some(res.ret.value)]
                             /\ CallAcquire(b)
                             /\ UNCHANGED result
    /\ UNCHANGED <<skip, dev, fs, penv, spawns, released, call, ret>>

\* the continuation after the await: execSync starts the build command
Resume(b) ==
    /\ pc[b] = "granted"
    /\ ~Blocked
    /\ pc' = [pc EXCEPT ![b] = "executing"]
    /\ spawns' = [spawns EXCEPT ![b] =
                    Append(@, [cmd |-> cmd[b][1], cwd |-> req[b].sitePath,
                               env |-> buildEnv(penv, req[b].environment, req[b].links)])]
    /\ UNCHANGED <<skip, dev, fs, penv, req, cmd, result, reads, limiter,
                   acquireCalls, acquired, released, call, ret>>

\* the call of limiter.release by invocation b
CallRelease(b, finalPc) ==
    LET r == release(limiter)
    IN  /\ limiter' = r.lim
        /\ released' = [released EXCEPT ![b] = @ + 1]
        /\ acquired' = [x \in Builds |->
                           IF r.woken = <<x>> THEN acquired[x] + 1 ELSE acquired[x]]
        /\ pc' = [x \in Builds |->
                     IF x = b THEN finalPc
                     ELSE IF r.woken = <<x>> THEN "granted" ELSE pc[x]]

\* a build runner that releases the slot only after a successful build
ExecReturnNoFinally(b, ok) ==
    /\ pc[b] = "executing"
    /\ IF ok
       THEN /\ result' = [result EXCEPT ![b] = Some(Return(req[b].sitePath))]
            /\ CallRelease(b, "returned")
       ELSE /\ result' = [result EXCEPT ![b] =
                    Some(Throw("VisibleError",
                               "There was a problem building \"" \o Name(b) \o "\"."))]
            /\ pc' = [pc EXCEPT ![b] = "failed"]
            /\ UNCHANGED <<limiter, released, acquired>>
    /\ UNCHANGED <<skip, dev, fs, penv, req, cmd, reads, spawns, acquireCalls, call, ret>>

\* execSync returns (ok) or throws: catch, finally, return sitePath
ExecReturn(b, ok) ==
    /\ pc[b] = "executing"
    /\ IF ok
       THEN /\ result' = [result EXCEPT ![b] = Some(Return(req[b].sitePath))]
            /\ CallRelease(b, "returned")
       ELSE /\ result' = [result EXCEPT ![b] =
                    Some(Throw("VisibleError",
                               "There was a problem building \"" \o Name(b) \o "\"."))]
            /\ CallRelease(b, "failed")
    /\ UNCHANGED <<skip, dev, fs, penv, req, cmd, reads, spawns, acquireCalls, call, ret>>

NoCall == [fn |-> "none"]

\* no buildApp invocation has started
NoBuilds ==
    /\ pc = [b \in Builds |-> "idle"]
    /\ req = [b \in Builds |-> NoRequest]
    /\ cmd = [b \in Builds |-> Undefined]
    /\ result = [b \in Builds |-> Undefined]
    /\ reads = [b \in Builds |-> <<>>]
    /\ spawns = [b \in Builds |-> <<>>]
    /\ limiter = [current |-> 0, queue |-> <<>>]
    /\ acquireCalls = [b \in Builds |-> 0]
    /\ acquired = [b \in Builds |-> 0]
    /\ released = [b \in Builds |-> 0]

Init ==
    /\ skip \in {Undefined, Some(""), Some("1")}
    /\ dev \in BOOLEAN
    /\ fs \in BuildFileSystems
    /\ penv = BuildProcessEnv
    /\ NoBuilds
    /\ call = NoCall
    /\ ret = Undefined

\* the starts of the runs whose progress is checked: the lockfiles play no part
\* in waiting for a slot
LiveInit ==
    /\ Init
    /\ skip \in {Undefined, Some("1")}
    /\ ~dev
    /\ fs.locks = {}
    /\ fs.pkg["/repo/web"] = "missing"
    /\ fs.pkg["/repo/docs"] = "hasBuild"

ExecOk(b) == ExecReturn(b, TRUE)

ExecFails(b) == ExecReturn(b, FALSE)

Next ==
    \E b \in Builds :
        \/ BuildApp(b)
        \/ Resume(b)
        \/ ExecOk(b)
        \/ ExecFails(b)

Spec == Init /\ [][Next]_vars

\* the event loop keeps running: while some callback can run, a resolved await
\* can be resumed or a spawned command can end, one of them does
LiveSpec == LiveInit /\ [][Next]_vars /\ WF_vars(Next)

(* ------------------------------------------------------------------ *)
(* A limiter whose acquire may reject                                   *)
(* ------------------------------------------------------------------ *)

\* buildApp up to the await, when limiter.acquire rejects instead of granting
BuildAppRejected(b) ==
    /\ pc[b] = "idle"
    /\ ~Blocked
    /\ ~ShortCircuit(skip, dev)
    /\ \E r \in BuildRequests :
         LET res == resolveBuildCommand(r.userCommand, r.sitePath, fs)
         IN  /\ res.ret.kind = "return"
             /\ req' = [req EXCEPT ![b] = r]
             /\ reads' = [reads EXCEPT ![b] = res.reads]
             /\ cmd' = [cmd EXCEPT ![b] = Some(res.ret.value)]
             /\ acquireCalls' = [acquireCalls EXCEPT ![b] = @ + 1]
             /\ pc' = [pc EXCEPT ![b] = "rejected"]
    /\ UNCHANGED <<skip, dev, fs, penv, result, spawns, limiter, acquired, released,
                   call, ret>>

\* the continuation after a rejected await: catch, then finally
ResumeRejected(b) ==
    /\ pc[b] = "rejected"
    /\ ~Blocked
    /\ result' = [result EXCEPT ![b] =
            Some(Throw("VisibleError",
                       "There was a problem building \"" \o Name(b) \o "\"."))]
    /\ CallRelease(b, "failed")
    /\ UNCHANGED <<skip, dev, fs, penv, req, cmd, reads, spawns, acquireCalls, call, ret>>

NextReject ==
    \/ Next
    \/ \E b \in Builds : BuildAppRejected(b) \/ ResumeRejected(b)

SpecReject == Init /\ [][NextReject]_vars

(* ------------------------------------------------------------------ *)
(* resolveBuildCommand on every combination of its inputs               *)
(* ------------------------------------------------------------------ *)

ResolveFileSystems ==
    {f \in FileSystems : f.pkg["/repo/docs"] \in {"missing", "hasBuild"}}

ResolveCalls ==
    [fn : {"resolveBuildCommand"},
     userCommand : {Undefined, Some(""), Some("make build")},
     sitePath : Sites]

ResolveInit ==
    /\ skip = Undefined
    /\ dev = FALSE
    /\ fs \in ResolveFileSystems
    /\ penv = BuildProcessEnv
    /\ NoBuilds
    /\ call \in ResolveCalls
    /\ ret = Undefined

ResolveCall ==
    /\ call.fn = "resolveBuildCommand"
    /\ ret = Undefined
    /\ ret' = Some(resolveBuildCommand(call.userCommand, call.sitePath, fs))
    /\ UNCHANGED <<buildVars, call>>

SpecResolve == ResolveInit /\ [][ResolveCall]_vars

(* ------------------------------------------------------------------ *)
(* The build environment on every combination of its layers             *)
(* ------------------------------------------------------------------ *)

ProcessEnvKeys ==
    {"PATH", "SST", "AWS_REGION", "SST_AWS_REGION", "SST_AWS_ACCESS_KEY_ID", "SST_RESOURCE_db"}

ProcessEnvs == {[k \in S |-> "env:" \o k] : S \in SUBSET ProcessEnvKeys}

OverrideKeys == {"SST", "AWS_REGION", "SST_RESOURCE_db", "SST_RESOURCE_App", "FOO"}

\* args.environment: absent, or an object of strings
Overrides == {Undefined} \cup {Some([k \in S |-> "user:" \o k]) : S \in SUBSET OverrideKeys}

\* what Link.build hands back for one link
LinkData ==
    {[name |-> "db", properties |-> <<<<"host", "db.local">>, <<"port", "5432">>>>],
     [name |-> "db", properties |-> <<>>],
     [name |-> "App", properties |-> <<<<"name", "other">>>>]}

LinkLists == UNION {[1..n -> LinkData] : n \in 0..MaxLinks}

EnvCalls == [fn : {"buildEnv"}, environment : Overrides, linkData : LinkLists]

EnvInit ==
    /\ skip = Undefined
    /\ dev = FALSE
    /\ fs \in {f \in BuildFileSystems : f.locks = {} /\ \A s \in Sites : f.pkg[s] = "hasBuild"}
    /\ penv \in ProcessEnvs
    /\ NoBuilds
    /\ call \in EnvCalls
    /\ ret = Undefined

EnvCall ==
    /\ call.fn = "buildEnv"
    /\ ret = Undefined
    /\ ret' = Some(buildEnv(penv, call.environment, call.linkData))
    /\ UNCHANGED <<buildVars, call>>

SpecEnv == EnvInit /\ [][EnvCall]_vars

(* ------------------------------------------------------------------ *)
(* loadOpenNextOutput on every descriptor                               *)
(* ------------------------------------------------------------------ *)

BaseFunctions ==
    [handler : {"index.handler", "init.handler"},
     bundle : {".open-next/dynamodb-provider", ".open-next/initialization-function"}]

Warmer == [handler |-> "index.handler", bundle |-> ".open-next/warmer-function"]

AdditionalProps ==
    [disableIncrementalCache : {Undefined, Some(TRUE)},
     initializationFunction : {Undefined} \cup {Some(f) : f \in BaseFunctions},
     warmer : {Undefined, Some(Warmer)}]

Behaviors ==
    {[pattern |-> "*", origin |-> Some("default"), edgeFunction |-> Undefined],
     [pattern |-> "_next/static/*", origin |-> Some("s3"), edgeFunction |-> Undefined]}

S3Origin ==
    [type |-> "s3", originPath |-> "_assets",
     copy |-> <<[from |-> ".open-next/assets", to |-> "_assets", cached |-> TRUE]>>]

ServerOrigin ==
    [type |-> "function", handler |-> "index.handler",
     bundle |-> ".open-next/server-functions/default"]

\* the documents open-next.output.json may hold
Descriptors ==
    [edgeFunctions : {EmptyObject,
                      [k \in {"middleware"} |->
                          [handler |-> "handler.handler", bundle |-> ".open-next/middleware"]]},
     origins : {[k \in {"s3", "default"} |-> IF k = "s3" THEN S3Origin ELSE ServerOrigin],
                [k \in {"s3", "default", "imageOptimizer"} |->
                    IF k = "s3" THEN S3Origin ELSE ServerOrigin]},
     behaviors : UNION {[1..n -> Behaviors] : n \in 0..MaxBehaviors},
     additionalProps : {Undefined} \cup {Some(a) : a \in AdditionalProps}]

NoDescriptor == CHOOSE d \in Descriptors : TRUE

\* the state of <outputPath>/.open-next/open-next.output.json
Disks ==
    {[exists |-> FALSE, content |-> [parses |-> FALSE, json |-> NoDescriptor]],
     [exists |-> TRUE, content |-> [parses |-> FALSE, json |-> NoDescriptor]]}
    \cup {[exists |-> TRUE, content |-> [parses |-> TRUE, json |-> d]] : d \in Descriptors}

ManifestInit ==
    /\ skip = Undefined
    /\ dev = FALSE
    /\ fs \in Disks
    /\ penv = BuildProcessEnv
    /\ NoBuilds
    /\ call \in [fn : {"loadOpenNextOutput"}, outputPath : Sites]
    /\ ret = Undefined

ManifestCall ==
    /\ call.fn = "loadOpenNextOutput"
    /\ ret = Undefined
    /\ ret' = Some(loadOpenNextOutput(call.outputPath, fs))
    /\ UNCHANGED <<buildVars, call>>

SpecManifest == ManifestInit /\ [][ManifestCall]_vars

(* ------------------------------------------------------------------ *)
(* getContentType on every filename and encoding                        *)
(* ------------------------------------------------------------------ *)

NameTokens ==
    {".", "/", "site", "html", "png", "unknownext", "well-known", "site-association-json"}

Filenames == UNION {[1..n -> NameTokens] : n \in 0..MaxNameLen}

TextEncodings == {"utf-8", "iso-8859-1", "none"}

ContentTypeInit ==
    /\ skip = Undefined
    /\ dev = FALSE
    /\ fs \in {f \in BuildFileSystems : f.locks = {} /\ \A s \in Sites : f.pkg[s] = "hasBuild"}
    /\ penv = BuildProcessEnv
    /\ NoBuilds
    /\ call \in [fn : {"getContentType"}, filename : Filenames, textEncoding : TextEncodings]
    /\ ret = Undefined

ContentTypeCall ==
    /\ call.fn = "getContentType"
    /\ ret = Undefined
    /\ ret' = Some(getContentType(call.filename, call.textEncoding))
    /\ UNCHANGED <<buildVars, call>>

SpecContentType == ContentTypeInit /\ [][ContentTypeCall]_vars

(* ------------------------------------------------------------------ *)
(* Properties of the build runner                                       *)
(* ------------------------------------------------------------------ *)

\* the builds that completed limiter.acquire and did not yet call limiter.release
Holders == {b \in Builds : pc[b] \in {"granted", "executing"}}

Finished(b) == pc[b] \in {"returned", "failed"}

RECURSIVE Total(_, _)
Total(f, S) ==
    IF S = {} THEN 0
    ELSE LET x == CHOOSE y \in S : TRUE IN f[x] + Total(f, S \ {x})

\* C1: at every moment at most Capacity builds hold a slot of the limiter, that
\* is, have completed limiter.acquire and not yet called limiter.release
C1_AtMostCapacityBuilding == Cardinality(Holders) <= Capacity

\* more builds than slots: the slots are all taken, one holder runs its build
\* command and another build waits
C1_Witness ==
    /\ NumBuilds > Capacity
    /\ Cardinality(Holders) = Capacity
    /\ \E b \in Builds : pc[b] = "executing"
    /\ \E w \in Builds : pc[w] = "waiting"

\* C2: a build acquires at most once and releases only what it acquired; a
\* build that holds a slot has not released it, a build that has ended (its
\* command succeeded, or failed and the build error was thrown) has released
\* every slot it acquired, and the limiter counts exactly the holders
C2_ReleasedExactlyOnce ==
    /\ \A b \in Builds :
         /\ acquired[b] <= 1
         /\ released[b] <= acquired[b]
         /\ b \in Holders => acquired[b] = 1 /\ released[b] = 0
         /\ Finished(b) => released[b] = acquired[b]
    /\ limiter.current = Cardinality(Holders)

\* one build ended with the build error and another returned its path, each
\* with one acquire and one release
C2_Witness ==
    \E a, b \in Builds :
        /\ pc[a] = "failed" /\ spawns[a] # <<>>
        /\ result[a][1].kind = "throw"
        /\ acquired[a] = 1 /\ released[a] = 1
        /\ pc[b] = "returned" /\ spawns[b] # <<>>
        /\ acquired[b] = 1 /\ released[b] = 1

\* C3: every one of the builds eventually returns its site path or fails
C3_AllBuildsEnd == <>(\A b \in Builds : Finished(b))

\* more builds than slots, every slot taken and a build queued for one
C3_Witness ==
    /\ NumBuilds > Capacity
    /\ limiter.current = Capacity
    /\ limiter.queue # <<>>
    /\ \A b \in Builds : pc[b] # "idle"

\* C4: when SKIP is set or in dev mode, an invocation returns its site path and
\* has resolved no command, probed no file, called neither acquire nor release
\* and spawned no process
C4_ShortCircuitNoSideEffect ==
    (Truthy(skip) \/ dev) =>
        \A b \in Builds :
            /\ pc[b] \in {"idle", "returned"}
            /\ pc[b] = "returned" => result[b] = Some(Return(req[b].sitePath))
            /\ cmd[b] = Undefined
            /\ reads[b] = <<>>
            /\ acquireCalls[b] = 0 /\ acquired[b] = 0 /\ released[b] = 0
            /\ spawns[b] = <<>>
            /\ limiter = [current |-> 0, queue |-> <<>>]

\* SKIP alone, and dev mode alone, ended an invocation for a site without
\* package.json and without an explicit command
C4_Witness ==
    /\ Truthy(skip) # dev
    /\ \E b \in Builds :
         /\ pc[b] = "returned"
         /\ req[b].userCommand = Undefined
         /\ fs.pkg[req[b].sitePath] = "missing"

\* the lockfile exists at the site path or at the workspace root
C5_Has(lock) ==
    join(call.sitePath, lock) \in fs.locks \/ join(Root, lock) \in fs.locks

\* C5: an explicit command is returned unchanged and no file is probed;
\* without one, for a site whose package.json declares a build script, the
\* command is yarn's if yarn.lock exists at the site or the root, else pnpm's
\* if pnpm-lock.yaml does, else bun's if bun.lockb does, else "npm run build"
C5_ResolutionPriority ==
    (call.fn = "resolveBuildCommand" /\ ret # Undefined) =>
        /\ Truthy(call.userCommand) =>
              /\ ret[1].ret = Return(call.userCommand[1])
              /\ ret[1].reads = <<>>
        /\ (~Truthy(call.userCommand) /\ fs.pkg[call.sitePath] = "hasBuild") =>
              /\ ret[1].ret.kind = "return"
              /\ ret[1].ret.value =
                    IF C5_Has("yarn.lock") THEN "yarn run build"
                    ELSE IF C5_Has("pnpm-lock.yaml") THEN "pnpm run build"
                    ELSE IF C5_Has("bun.lockb") THEN "bun run build"
                    ELSE "npm run build"

\* yarn.lock at the site and pnpm-lock.yaml at the root: yarn was chosen
C5_Witness ==
    /\ call.fn = "resolveBuildCommand"
    /\ ret # Undefined
    /\ call.userCommand = Undefined
    /\ fs.pkg[call.sitePath] = "hasBuild"
    /\ join(call.sitePath, "yarn.lock") \in fs.locks
    /\ join(Root, "yarn.lock") \notin fs.locks
    /\ join(Root, "pnpm-lock.yaml") \in fs.locks
    /\ ret[1].ret.value = "yarn run build"

\* the five layers of the build environment, from the inputs
C7_Layers ==
    <<Lift(penv),
      [k \in {"SST"} |-> Some("1")],
      [k \in {"AWS_ACCESS_KEY_ID", "AWS_SESSION_TOKEN", "AWS_SECRET_ACCESS_KEY",
               "AWS_REGION"} |-> GetEnv(penv, "SST_" \o k)],
      IF IsDefined(call.environment) THEN Lift(call.environment[1]) ELSE EmptyObject,
      [k \in {"SST_RESOURCE_App"}
              \cup {"SST_RESOURCE_" \o call.linkData[i].name : i \in DOMAIN call.linkData} |->
          LET at == {i \in DOMAIN call.linkData : "SST_RESOURCE_" \o call.linkData[i].name = k}
          IN  IF at = {} THEN Some(stringify(App))
              ELSE Some(stringify(call.linkData[CHOOSE i \in at : \A j \in at : j <= i].properties))]>>

\* C7: the environment handed to the build command has the keys of the five
\* layers, and each key has the value of the last layer that defines it
C7_LaterLayerWins ==
    (call.fn = "buildEnv" /\ ret # Undefined) =>
        /\ DOMAIN ret[1] = UNION {DOMAIN C7_Layers[i] : i \in 1..5}
        /\ \A k \in DOMAIN ret[1] :
              LET def == {i \in 1..5 : k \in DOMAIN C7_Layers[i]}
                  last == CHOOSE i \in def : \A j \in def : j <= i
              IN  ret[1][k] = C7_Layers[last][k]

\* a link entry won over a caller override of its key, and caller overrides
\* won over the marker and over a remapped credential
C7_Witness ==
    /\ call.fn = "buildEnv"
    /\ ret # Undefined
    /\ IsDefined(call.environment)
    /\ {"SST", "AWS_REGION", "SST_RESOURCE_db"} \subseteq DOMAIN call.environment[1]
    /\ "SST_AWS_REGION" \in DOMAIN penv
    /\ \E i \in DOMAIN call.linkData : call.linkData[i].name = "db"
    /\ ret[1]["SST_RESOURCE_db"] # Some("user:SST_RESOURCE_db")
    /\ ret[1]["SST"] = Some("user:SST")
    /\ ret[1]["AWS_REGION"] = Some("user:AWS_REGION")

\* C6: an invocation with no explicit command for a site whose package.json is
\* missing or declares no build script fails with a VisibleError naming the
\* site path, whatever the lockfiles; no command is resolved and none is run
C6_MissingBuildScriptFails ==
    \A b \in Builds :
        ( /\ pc[b] # "idle"
          /\ ~(Truthy(skip) \/ dev)
          /\ ~Truthy(req[b].userCommand)
          /\ fs.pkg[req[b].sitePath] \in {"missing", "noScripts", "noBuild", "emptyBuild"} )
        => /\ pc[b] = "failed"
           /\ result[b] # Undefined
           /\ result[b][1].kind = "throw"
           /\ result[b][1].type = "VisibleError"
           /\ result[b][1].value =
                  IF fs.pkg[req[b].sitePath] = "missing"
                  THEN "No package.json found at \"" \o req[b].sitePath \o "\"."
                  ELSE "No \"build\" script found within package.json in \""
                           \o req[b].sitePath \o "\"."
           /\ cmd[b] = Undefined
           /\ spawns[b] = <<>>
           /\ acquireCalls[b] = 0

\* a site without package.json failed while lockfiles are present, and a site
\* without a build script failed
C6_Witness ==
    /\ fs.locks # {}
    /\ \E a, b \in Builds :
         /\ pc[a] = "failed" /\ fs.pkg[req[a].sitePath] = "missing"
         /\ req[a].userCommand = Undefined
         /\ pc[b] = "failed" /\ fs.pkg[req[b].sitePath] \in {"noScripts", "noBuild", "emptyBuild"}
         /\ req[b].userCommand = Undefined

\* C8: a parseable descriptor is returned as parsed, except that a declared
\* additionalProps.initializationFunction becomes the fixed entry; none is
\* added when the descriptor declares none
C8_OnlyInitializationFunctionCorrected ==
    (call.fn = "loadOpenNextOutput" /\ ret # Undefined /\ fs.exists /\ fs.content.parses) =>
        LET d == fs.content.json
            r == ret[1]
        IN  /\ r.kind = "return"
            /\ r.value.edgeFunctions = d.edgeFunctions
            /\ r.value.origins = d.origins
            /\ r.value.behaviors = d.behaviors
            /\ IsDefined(r.value.additionalProps) = IsDefined(d.additionalProps)
            /\ IsDefined(d.additionalProps) =>
                  LET a == d.additionalProps[1]
                      o == r.value.additionalProps[1]
                  IN  /\ o.disableIncrementalCache = a.disableIncrementalCache
                      /\ o.warmer = a.warmer
                      /\ IsDefined(a.initializationFunction) =>
                            o.initializationFunction =
                                Some([handler |-> "index.handler",
                                      bundle |-> ".open-next/dynamodb-provider"])
                      /\ ~IsDefined(a.initializationFunction) =>
                            o.initializationFunction = Undefined

\* a descriptor with two behaviors, a warmer and an initializationFunction
\* whose handler and bundle are both not the fixed ones has been loaded
C8_Witness ==
    /\ call.fn = "loadOpenNextOutput"
    /\ ret # Undefined
    /\ fs.exists /\ fs.content.parses
    /\ Len(fs.content.json.behaviors) = 2
    /\ fs.content.json.behaviors[1] # fs.content.json.behaviors[2]
    /\ IsDefined(fs.content.json.additionalProps)
    /\ IsDefined(fs.content.json.additionalProps[1].warmer)
    /\ fs.content.json.additionalProps[1].initializationFunction =
           Some([handler |-> "init.handler", bundle |-> ".open-next/dynamodb-provider"])
    /\ ret[1].value.additionalProps[1].initializationFunction[1].handler = "index.handler"

\* the extension the filename is looked up by
C9_Ext == IF endsWith(call.filename, WellKnownSuffix) THEN ".json" ELSE extname(call.filename)

\* the MIME types of the table's text entries
C9_TextMimes ==
    {"text/plain", "text/html", "application/xhtml+xml", "text/css", "text/javascript",
     "image/svg+xml", "application/json", "application/ld+json", "application/xml",
     "application/manifest+json"}

\* C9: the content type is the MIME type of the extension in the table (".json"
\* for a name ending in ".well-known/site-association-json", and
\* "application/octet-stream" for an extension the table lacks), followed by
\* ";charset=<encoding>" exactly when the entry is text and the encoding is not
\* "none"
C9_ContentType ==
    (call.fn = "getContentType" /\ ret # Undefined) =>
        LET mime == IF C9_Ext \in DOMAIN extensions THEN extensions[C9_Ext].mime
                    ELSE "application/octet-stream"
            suffixed == mime \in C9_TextMimes /\ call.textEncoding # "none"
        IN  /\ suffixed => ret[1] = mime \o ";charset=" \o call.textEncoding
            /\ ~suffixed => ret[1] = mime
            /\ (call.filename = <<"site", ".", "html">> /\ call.textEncoding = "utf-8")
                  => ret[1] = "text/html;charset=utf-8"
            /\ (call.filename = <<"site", ".", "png">> /\ call.textEncoding = "utf-8")
                  => ret[1] = "image/png"
            /\ (call.filename = WellKnownSuffix /\ call.textEncoding = "utf-8")
                  => ret[1] = "application/json;charset=utf-8"
            /\ (call.filename = <<"site", ".", "unknownext">> /\ call.textEncoding = "utf-8")
                  => ret[1] = "application/octet-stream"

\* the type of a binary file, asked with an encoding, came back without charset
C9_Witness ==
    /\ call.fn = "getContentType"
    /\ ret # Undefined
    /\ call.filename = <<"site", ".", "png">>
    /\ call.textEncoding = "iso-8859-1"
    /\ ret[1] = "image/png"

\* C10: the runner never calls release more often than its acquires completed,
\* and the limiter never has more than Capacity free slots
C10_ReleaseOnlyHeldSlots ==
    /\ Total(released, Builds) <= Total(acquired, Builds)
    /\ Capacity - limiter.current <= Capacity

====
